---- MODULE Spec2Model ----
(***************************************************************************)
(* A model of the in-memory graph-rewrite core (src/src/lib.rs): the graph *)
(* store, the simulator, the invariant battery, validate and apply.        *)
(* Ids, type names and revisions are strings, as in the source; options    *)
(* are tagged records; vectors are sequences; BTreeMap attributes are      *)
(* functions from keys to tagged values.                                   *)
(***************************************************************************)
EXTENDS Integers, Sequences, FiniteSets, TLC

VARIABLES core, last, history, held

vars == <<core, last, history, held>>

(* ---------- bounds ---------- *)

\* Number of successful applies explored on one engine.
MaxApplies == 2

(* ---------- Option, strings ---------- *)

Some(x) == [tag |-> "Some", v |-> x]

None == [tag |-> "None"]

\* str::starts_with
starts_with(s, p) == Len(s) >= Len(p) /\ SubSeq(s, 1, Len(p)) = p

\* str::strip_prefix
strip_prefix(s, p) == IF starts_with(s, p) THEN Some(SubSeq(s, Len(p) + 1, Len(s))) ELSE None

\* [String]::join
RECURSIVE join(_, _)
join(ss, sep) ==
  IF Len(ss) = 0 THEN ""
  ELSE IF Len(ss) = 1 THEN ss[1]
  ELSE ss[1] \o sep \o join(Tail(ss), sep)

\* Position of the last occurrence of the one-character string ch in s, 0 if none.
RECURSIVE rfind(_, _, _)
rfind(s, ch, i) ==
  IF i = 0 THEN 0
  ELSE IF SubSeq(s, i, i) = ch THEN i
  ELSE rfind(s, ch, i - 1)

\* s.split(ch).last(): the text after the last ch (all of s when ch is absent).
split_last(s, ch) == SubSeq(s, rfind(s, ch, Len(s)) + 1, Len(s))

Digits == <<"0", "1", "2", "3", "4", "5", "6", "7", "8", "9">>

IsDigit(c) == \E d \in 1..10 : Digits[d] = c

DigitVal(c) == (CHOOSE d \in 1..10 : Digits[d] = c) - 1

\* str::parse::<u64>: Some(n) for a non-empty run of decimal digits (an optional
\* leading '+'), None otherwise.  (The revisions explored stay far below 2^64,
\* so the overflow case of parse is not reached.)
RECURSIVE parse_digits(_, _, _)
parse_digits(s, i, acc) ==
  IF i > Len(s) THEN Some(acc)
  ELSE IF ~IsDigit(SubSeq(s, i, i)) THEN None
  ELSE parse_digits(s, i + 1, acc * 10 + DigitVal(SubSeq(s, i, i)))

parse_u64(s) ==
  LET body == IF starts_with(s, "+") THEN SubSeq(s, 2, Len(s)) ELSE s
  IN IF Len(body) = 0 THEN None ELSE parse_digits(body, 1, 0)

unwrap_or(o, d) == IF o.tag = "Some" THEN o.v ELSE d

(* ---------- Value, Node, Edge, Graph ---------- *)

Str(s) == [kind |-> "Str", value |-> s]

EmptyAttrs == [k \in {} |-> Str("")]

\* BTreeMap::get
attrs_get(attrs, k) == IF k \in DOMAIN attrs THEN Some(attrs[k]) ELSE None

Node(id, ty, attrs) == [id |-> id, node_type |-> ty, attrs |-> attrs]

Edge(id, ty, src, dst) == [id |-> id, edge_type |-> ty, src |-> src, dst |-> dst, attrs |-> EmptyAttrs]

Graph(ns, es) == [nodes |-> ns, edges |-> es]

\* Graph::default
GraphDefault == Graph(<<>>, <<>>)

(* ---------- NodeType / EdgeType ---------- *)

NodeTypeNames == {"Thread", "Turn", "Message", "Actor", "Concept", "Decision", "Task"}

\* NodeType::from_str; the variants are written as their Debug names.
NodeType_from_str(s) == IF s \in NodeTypeNames THEN Some(s) ELSE None

EdgeTypeTable ==
  { <<"HAS_TURN", "HasTurn">>, <<"HAS_MESSAGE", "HasMessage">>,
    <<"AUTHORED_BY", "AuthoredBy">>, <<"RESPONDS_TO", "RespondsTo">>,
    <<"MENTIONS", "Mentions">>, <<"RELATES_TO", "RelatesTo">>,
    <<"DECIDES", "Decides">>, <<"BLOCKED_BY", "BlockedBy">>,
    <<"APPLIES_TO", "AppliesTo">>, <<"CREATES_TASK", "CreatesTask">> }

\* EdgeType::from_str
EdgeType_from_str(s) ==
  IF \E p \in EdgeTypeTable : p[1] = s
  THEN Some((CHOOSE p \in EdgeTypeTable : p[1] = s)[2])
  ELSE None

\* EdgeType::as_str
EdgeType_as_str(et) == (CHOOSE p \in EdgeTypeTable : p[2] = et)[1]

(* ---------- InvariantResult & ValidationReport ---------- *)

InvariantResult(name, passed, message) == [name |-> name, passed |-> passed, message |-> message]

\* The errors vector of from_invariants: one formatted entry per failed invariant.
RECURSIVE from_invariants_errors(_)
from_invariants_errors(invs) ==
  IF Len(invs) = 0 THEN <<>>
  ELSE (IF ~invs[1].passed
        THEN <<"Invariant '" \o invs[1].name \o "' failed: " \o invs[1].message>>
        ELSE <<>>) \o from_invariants_errors(Tail(invs))

\* Variant whose loop stops one short of the end of the vector.
from_invariants_skipping_last(invs) ==
  LET errors == from_invariants_errors(SubSeq(invs, 1, Len(invs) - 1))
      is_valid == Len(errors) = 0
  IN [is_valid |-> is_valid, is_confluent |-> TRUE, schema_valid |-> is_valid,
      invariants |-> invs, warnings |-> <<>>, errors |-> errors]

\* ValidationReport::from_invariants
from_invariants(invs) ==
  LET errors == from_invariants_errors(invs)
      is_valid == Len(errors) = 0
  IN [is_valid |-> is_valid, is_confluent |-> TRUE, schema_valid |-> is_valid,
      invariants |-> invs, warnings |-> <<>>, errors |-> errors]

(* ---------- check_no_orphan_messages ---------- *)

\* has_message_count[id]: HAS_MESSAGE edges whose dst is id.
has_message_count(graph, id) ==
  Cardinality({i \in 1..Len(graph.edges) :
      /\ EdgeType_from_str(graph.edges[i].edge_type) = Some("HasMessage")
      /\ graph.edges[i].dst = id})

\* authored_by_count[id]: AUTHORED_BY edges whose src is id.
authored_by_count(graph, id) ==
  Cardinality({i \in 1..Len(graph.edges) :
      /\ EdgeType_from_str(graph.edges[i].edge_type) = Some("AuthoredBy")
      /\ graph.edges[i].src = id})

\* A Message is reported when either count is not exactly one, as the
\* single-condition variant below would fail to do.
is_orphan_both(hm, ab) == hm # 1 /\ ab # 1

\* The test `hm != 1 || ab != 1`.
is_orphan(hm, ab) == hm # 1 \/ ab # 1

RECURSIVE orphan_problems(_, _)
orphan_problems(graph, i) ==
  IF i > Len(graph.nodes) THEN <<>>
  ELSE LET n == graph.nodes[i]
           hm == has_message_count(graph, n.id)
           ab == authored_by_count(graph, n.id)
       IN (IF NodeType_from_str(n.node_type) = Some("Message") /\ is_orphan(hm, ab)
           THEN <<"Message " \o n.id \o " has " \o ToString(hm) \o " HAS_MESSAGE and "
                   \o ToString(ab) \o " AUTHORED_BY edges (expected 1 each)">>
           ELSE <<>>) \o orphan_problems(graph, i + 1)

check_no_orphan_messages(graph) ==
  LET problems == orphan_problems(graph, 1)
  IN IF Len(problems) = 0
     THEN InvariantResult("no_orphan_messages", TRUE,
                          "All messages have exactly one HAS_MESSAGE and one AUTHORED_BY.")
     ELSE InvariantResult("no_orphan_messages", FALSE, join(problems, "; "))

(* ---------- check_no_assistant_pii_leak ---------- *)

ch(s, i) == IF 1 <= i /\ i <= Len(s) THEN SubSeq(s, i, i) ELSE ""

Lower == {"a", "b", "c", "d", "e", "f", "g", "h", "i", "j", "k", "l", "m",
          "n", "o", "p", "q", "r", "s", "t", "u", "v", "w", "x", "y", "z"}

Upper == {"A", "B", "C", "D", "E", "F", "G", "H", "I", "J", "K", "L", "M",
          "N", "O", "P", "Q", "R", "S", "T", "U", "V", "W", "X", "Y", "Z"}

DigitChars == {Digits[d] : d \in 1..10}

AlNum == Lower \cup Upper \cup DigitChars

\* [a-zA-Z0-9_.+-]
EmailLocalChars == AlNum \cup {"_", ".", "+", "-"}

\* [a-zA-Z0-9-]
EmailDomainChars == AlNum \cup {"-"}

\* [a-zA-Z0-9-.]
EmailTailChars == AlNum \cup {"-", "."}

\* [-.\s]
PhoneSepChars == {"-", ".", " ", "\t", "\n", "\r", "\f"}

\* email_re.is_match(text): somewhere in text, one local character, '@', a
\* non-empty run of domain characters, '.', one tail character.
email_re_is_match(text) ==
  \E a \in 1..Len(text) :
    /\ ch(text, a) = "@"
    /\ ch(text, a - 1) \in EmailLocalChars
    /\ \E d \in (a + 2)..Len(text) :
         /\ ch(text, d) = "."
         /\ \A k \in (a + 1)..(d - 1) : ch(text, k) \in EmailDomainChars
         /\ ch(text, d + 1) \in EmailTailChars

\* n digits starting at position i
digits_at(text, i, n) == \A k \in i..(i + n - 1) : ch(text, k) \in DigitChars

\* phone_re.is_match(text): the leading country-code group is optional, so a
\* match is \(?\d{3}\)?[-.\s]?\d{3}[-.\s]?\d{4} starting anywhere in text.
phone_re_is_match(text) ==
  \E p \in 1..Len(text) : \E open \in {0, 1} : \E close \in {0, 1} :
  \E s1 \in {0, 1} : \E s2 \in {0, 1} :
    LET a == p + open
        b == a + 3 + close
        c == b + s1
        d == c + 3 + s2
    IN /\ open = 1 => ch(text, p) = "("
       /\ digits_at(text, a, 3)
       /\ close = 1 => ch(text, a + 3) = ")"
       /\ s1 = 1 => ch(text, b) \in PhoneSepChars
       /\ digits_at(text, c, 3)
       /\ s2 = 1 => ch(text, c + 3) \in PhoneSepChars
       /\ digits_at(text, d, 4)

\* Variant that consults the email pattern only.
contains_pii_email_only(text) == email_re_is_match(text)

\* The test `email_re.is_match(text) || phone_re.is_match(text)`.
contains_pii(text) == email_re_is_match(text) \/ phone_re_is_match(text)

RECURSIVE pii_problems(_, _)
pii_problems(graph, i) ==
  IF i > Len(graph.nodes) THEN <<>>
  ELSE LET n == graph.nodes[i]
           author == attrs_get(n.attrs, "author")
           content == attrs_get(n.attrs, "content")
           is_assistant == author = Some(Str("assistant"))
           leak == /\ NodeType_from_str(n.node_type) = Some("Message")
                   /\ is_assistant
                   /\ content.tag = "Some"
                   /\ content.v.kind = "Str"
                   /\ contains_pii(content.v.value)
       IN (IF leak THEN <<"Assistant message " \o n.id \o " appears to contain PII.">>
           ELSE <<>>) \o pii_problems(graph, i + 1)

check_no_assistant_pii_leak(graph) ==
  LET problems == pii_problems(graph, 1)
  IN IF Len(problems) = 0
     THEN InvariantResult("no_assistant_pii_leak", TRUE,
                          "No assistant messages contain obvious PII.")
     ELSE InvariantResult("no_assistant_pii_leak", FALSE, join(problems, "; "))

(* ---------- check_well_typed_edges ---------- *)

\* node_types.get(id): the HashMap filled in node order, a later recognized node
\* with the same id replacing an earlier one.
node_types_get(graph, id) ==
  LET idx == {i \in 1..Len(graph.nodes) :
                /\ graph.nodes[i].id = id
                /\ NodeType_from_str(graph.nodes[i].node_type).tag = "Some"}
  IN IF idx = {} THEN None
     ELSE NodeType_from_str(graph.nodes[CHOOSE i \in idx : \A j \in idx : j <= i].node_type)

\* The match (et, src_ty, dst_ty) of check_well_typed_edges.
TypedEdgeTable ==
  { <<"HasTurn", "Thread", "Turn">>,
    <<"HasMessage", "Turn", "Message">>,
    <<"AuthoredBy", "Message", "Actor">>,
    <<"RespondsTo", "Message", "Message">>,
    <<"Mentions", "Message", "Concept">>,
    <<"RelatesTo", "Concept", "Concept">>,
    <<"Decides", "Decision", "Concept">>,
    <<"Decides", "Decision", "Task">>,
    <<"BlockedBy", "Task", "Task">>,
    <<"BlockedBy", "Task", "Concept">>,
    <<"AppliesTo", "Decision", "Thread">>,
    <<"CreatesTask", "Message", "Task">> }

\* Variant that looks only at the edge type and the dst type.
edge_ok_ignoring_src(et, src_ty, dst_ty) == \E row \in TypedEdgeTable : row[1] = et /\ row[3] = dst_ty

edge_ok(et, src_ty, dst_ty) == <<et, src_ty, dst_ty>> \in TypedEdgeTable

\* Variant that passes over an edge whose src or dst is not in node_types.
edge_problem_lenient(graph, e) ==
  LET et == EdgeType_from_str(e.edge_type)
      src_ty == node_types_get(graph, e.src)
      dst_ty == node_types_get(graph, e.dst)
  IN IF et.tag = "None"
     THEN <<"Unknown edge type '" \o e.edge_type \o "' on edge " \o e.id>>
     ELSE IF src_ty.tag = "None" \/ dst_ty.tag = "None"
     THEN <<>>
     ELSE IF ~edge_ok(et.v, src_ty.v, dst_ty.v)
     THEN <<"Edge " \o e.id \o " of type " \o EdgeType_as_str(et.v)
             \o " has illegal src/dst types: " \o src_ty.v \o " -> " \o dst_ty.v>>
     ELSE <<>>

\* The problems one edge contributes (none or one).
edge_problem(graph, e) ==
  LET et == EdgeType_from_str(e.edge_type)
      src_ty == node_types_get(graph, e.src)
      dst_ty == node_types_get(graph, e.dst)
  IN IF et.tag = "None"
     THEN <<"Unknown edge type '" \o e.edge_type \o "' on edge " \o e.id>>
     ELSE IF src_ty.tag = "None"
     THEN <<"Edge " \o e.id \o " has unknown src node " \o e.src>>
     ELSE IF dst_ty.tag = "None"
     THEN <<"Edge " \o e.id \o " has unknown dst node " \o e.dst>>
     ELSE IF ~edge_ok(et.v, src_ty.v, dst_ty.v)
     THEN <<"Edge " \o e.id \o " of type " \o EdgeType_as_str(et.v)
             \o " has illegal src/dst types: " \o src_ty.v \o " -> " \o dst_ty.v>>
     ELSE <<>>

RECURSIVE typed_problems(_, _)
typed_problems(graph, i) ==
  IF i > Len(graph.edges) THEN <<>>
  ELSE edge_problem(graph, graph.edges[i]) \o typed_problems(graph, i + 1)

check_well_typed_edges(graph) ==
  LET problems == typed_problems(graph, 1)
  IN IF Len(problems) = 0
     THEN InvariantResult("well_typed_edges", TRUE, "All edges respect allowed src/dst types.")
     ELSE InvariantResult("well_typed_edges", FALSE, join(problems, "; "))

(* ---------- Rule model ---------- *)

NodePattern(var, node_type) == [var |-> var, node_type |-> node_type, attr_constraints |-> EmptyAttrs]

\* AttrOp::Eq
AttrEq(value) == [op |-> "eq", value |-> value]

\* A NodePattern with attribute constraints: key -> sequence of AttrOp.
NodePatternWhere(var, node_type, attr_constraints) ==
  [var |-> var, node_type |-> node_type, attr_constraints |-> attr_constraints]

GraphPattern(ns) == [nodes |-> ns, edges |-> <<>>, constraints |-> <<>>]

DpoRule(id, left, interface, right) ==
  [metadata |-> [id |-> id], left |-> left, interface |-> interface, right |-> right]

(* ---------- check_immutable_history ---------- *)

\* message_vars_in_left: the HashSet of the variables of L whose node_type is
\* Some("Message").
message_vars_in_left(rule) ==
  {rule.left.nodes[i].var : i \in {j \in 1..Len(rule.left.nodes) :
                                      rule.left.nodes[j].node_type = Some("Message")}}

\* The orders in which a HashSet may be iterated: every enumeration of the set.
IterationOrders(S) ==
  {o \in [1..Cardinality(S) -> S] : \A i, j \in 1..Cardinality(S) : i # j => o[i] # o[j]}

interface_vars(rule) == {rule.interface.nodes[i].var : i \in 1..Len(rule.interface.nodes)}

vars_in_right(rule) ==
  {strip_prefix(rule.right.nodes[i].id, "var:").v :
     i \in {j \in 1..Len(rule.right.nodes) : starts_with(rule.right.nodes[j].id, "var:")}}

RECURSIVE history_problems(_, _, _)
history_problems(rule, order, i) ==
  IF i > Len(order) THEN <<>>
  ELSE LET v == order[i]
       IN (IF v \notin interface_vars(rule)
           THEN <<"Message var '" \o v
                   \o "' appears in L but not in interface K (would allow deletion).">>
           ELSE <<>>)
          \o (IF v \notin vars_in_right(rule)
              THEN <<"Message var '" \o v \o "' appears in L but no corresponding 'var:" \o v
                      \o "' node in R (would delete message).">>
              ELSE <<>>)
          \o history_problems(rule, order, i + 1)

\* Variant that tests membership in K only, not the var: node of R.
check_immutable_history_K_only(rule, order) ==
  IF \A v \in message_vars_in_left(rule) : v \in interface_vars(rule)
  THEN InvariantResult("immutable_history", TRUE,
                       "All Messages in L are preserved via K and R; no deletions.")
  ELSE InvariantResult("immutable_history", FALSE, "not in interface K")

\* Variant whose loop stops after the first element it meets.
check_immutable_history_first_only(rule, order) ==
  IF message_vars_in_left(rule) = {}
  THEN InvariantResult("immutable_history", TRUE, "Rule does not touch any Message nodes in L.")
  ELSE LET problems == history_problems(rule, SubSeq(order, 1, 1), 1)
       IN IF Len(problems) = 0
          THEN InvariantResult("immutable_history", TRUE,
                               "All Messages in L are preserved via K and R; no deletions.")
          ELSE InvariantResult("immutable_history", FALSE, join(problems, "; "))

\* order: the order in which the loop meets the elements of message_vars_in_left.
check_immutable_history(rule, order) ==
  IF message_vars_in_left(rule) = {}
  THEN InvariantResult("immutable_history", TRUE, "Rule does not touch any Message nodes in L.")
  ELSE LET problems == history_problems(rule, order, 1)
       IN IF Len(problems) = 0
          THEN InvariantResult("immutable_history", TRUE,
                               "All Messages in L are preserved via K and R; no deletions.")
          ELSE InvariantResult("immutable_history", FALSE, join(problems, "; "))

(* ---------- InMemoryCore ---------- *)

\* InMemoryCore::new; the timestamp is the clock reading ts.
new(ts) ==
  [snapshot |-> [graph |-> GraphDefault,
                 metadata |-> [revision |-> "rev-0", timestamp |-> ts,
                               actor_id |-> "system",
                               description |-> "Initial empty state"]],
   next_node_id |-> 1,
   next_edge_id |-> 1]

\* HashMap<String, String>
EmptyMap == [k \in {} |-> ""]

insert(m, k, v) == [x \in (DOMAIN m) \cup {k} |-> IF x = k THEN v ELSE m[x]]

map_get(m, k) == IF k \in DOMAIN m THEN Some(m[k]) ELSE None

\* new_graph.nodes.iter().find(|n| n.node_type == ty)
find_node_of_type(nodes, ty) ==
  LET idx == {i \in 1..Len(nodes) : nodes[i].node_type = ty}
  IN IF idx = {} THEN None ELSE Some(nodes[CHOOSE i \in idx : \A j \in idx : i <= j])

\* The closure of find unwraps np.node_type, so the loop over L aborts when a
\* pattern has no node_type and the graph has a node to test it on.
left_panics(nodes, left_nodes) ==
  Len(nodes) > 0 /\ \E i \in 1..Len(left_nodes) : left_nodes[i].node_type = None

\* The loop over rule.left.nodes: bind var:<var> to the first node of the type.
RECURSIVE bind_left(_, _, _, _)
bind_left(nodes, left_nodes, i, id_map) ==
  IF i > Len(left_nodes) THEN id_map
  ELSE LET np == left_nodes[i]
           found == IF Len(nodes) = 0 THEN None
                    ELSE find_node_of_type(nodes, np.node_type.v)
       IN bind_left(nodes, left_nodes, i + 1,
                    IF found.tag = "Some"
                    THEN insert(id_map, "var:" \o np.var, found.v.id)
                    ELSE id_map)

\* Variant that pushes the clone of the R node without giving it the new id.
RECURSIVE add_nodes_keeping_temp_id(_, _, _)
add_nodes_keeping_temp_id(right_nodes, i, st) ==
  IF i > Len(right_nodes) THEN st
  ELSE LET node == right_nodes[i]
           new_id == "n" \o ToString(st.next_node_id)
       IN add_nodes_keeping_temp_id(right_nodes, i + 1,
            IF starts_with(node.id, "new:")
            THEN [nodes |-> Append(st.nodes, node),
                  id_map |-> insert(st.id_map, node.id, new_id),
                  next_node_id |-> st.next_node_id + 1]
            ELSE st)

\* The loop over rule.right.nodes; st = [nodes, id_map, next_node_id].
RECURSIVE add_nodes(_, _, _)
add_nodes(right_nodes, i, st) ==
  IF i > Len(right_nodes) THEN st
  ELSE LET node == right_nodes[i]
           new_id == "n" \o ToString(st.next_node_id)
       IN add_nodes(right_nodes, i + 1,
            IF starts_with(node.id, "new:")
            THEN [nodes |-> Append(st.nodes, [node EXCEPT !.id = new_id]),
                  id_map |-> insert(st.id_map, node.id, new_id),
                  next_node_id |-> st.next_node_id + 1]
            ELSE st)

\* Variant that looks the destination up under the source's key.
RECURSIVE add_edges_dst_from_src(_, _, _, _)
add_edges_dst_from_src(right_edges, i, id_map, st) ==
  IF i > Len(right_edges) THEN st
  ELSE LET edge == right_edges[i]
           new_id == "e" \o ToString(st.next_edge_id)
           src_id == map_get(id_map, edge.src)
           new_edge == [edge EXCEPT !.id = new_id,
                                    !.src = unwrap_or(src_id, edge.src),
                                    !.dst = unwrap_or(src_id, edge.dst)]
       IN add_edges_dst_from_src(right_edges, i + 1, id_map,
            IF starts_with(edge.id, "new:")
            THEN [edges |-> Append(st.edges, new_edge),
                  next_edge_id |-> st.next_edge_id + 1]
            ELSE st)

\* The loop over rule.right.edges; st = [edges, next_edge_id].
RECURSIVE add_edges(_, _, _, _)
add_edges(right_edges, i, id_map, st) ==
  IF i > Len(right_edges) THEN st
  ELSE LET edge == right_edges[i]
           new_id == "e" \o ToString(st.next_edge_id)
           src_id == map_get(id_map, edge.src)
           dst_id == map_get(id_map, edge.dst)
           new_edge == [edge EXCEPT !.id = new_id,
                                    !.src = unwrap_or(src_id, edge.src),
                                    !.dst = unwrap_or(dst_id, edge.dst)]
       IN add_edges(right_edges, i + 1, id_map,
            IF starts_with(edge.id, "new:")
            THEN [edges |-> Append(st.edges, new_edge),
                  next_edge_id |-> st.next_edge_id + 1]
            ELSE st)

\* Variant that builds the result from an empty graph instead of a clone of the
\* live graph.
simulate_apply_from_empty(c, rule) ==
  LET g == c.snapshot.graph
  IN IF left_panics(g.nodes, rule.left.nodes) THEN [tag |-> "Panic"]
     ELSE LET bound == bind_left(g.nodes, rule.left.nodes, 1, EmptyMap)
              ns == add_nodes(rule.right.nodes, 1,
                              [nodes |-> <<>>, id_map |-> bound,
                               next_node_id |-> c.next_node_id])
              es == add_edges(rule.right.edges, 1, ns.id_map,
                              [edges |-> <<>>, next_edge_id |-> c.next_edge_id])
          IN [tag |-> "Ok", graph |-> Graph(ns.nodes, es.edges)]

\* InMemoryCore::simulate_apply: Ok(new_graph), or the abort of the unwrap.
simulate_apply(c, rule) ==
  LET g == c.snapshot.graph
  IN IF left_panics(g.nodes, rule.left.nodes) THEN [tag |-> "Panic"]
     ELSE LET bound == bind_left(g.nodes, rule.left.nodes, 1, EmptyMap)
              ns == add_nodes(rule.right.nodes, 1,
                              [nodes |-> g.nodes, id_map |-> bound,
                               next_node_id |-> c.next_node_id])
              es == add_edges(rule.right.edges, 1, ns.id_map,
                              [edges |-> g.edges, next_edge_id |-> c.next_edge_id])
          IN [tag |-> "Ok", graph |-> Graph(ns.nodes, es.edges)]

\* InMemoryCore::apply_rewrite: the graph is replaced; the counters are left alone.
apply_rewrite(c, rule) ==
  [c EXCEPT !.snapshot.graph = simulate_apply(c, rule).graph]

\* RmgCore::snapshot
snapshot(c) == c.snapshot

\* RmgCore::validate
validate(c, rule, order) ==
  LET sim == simulate_apply(c, rule)
  IN IF sim.tag = "Panic" THEN [tag |-> "Panic"]
     ELSE [tag |-> "Ok",
           report |-> from_invariants(<<check_no_orphan_messages(sim.graph),
                                        check_no_assistant_pii_leak(sim.graph),
                                        check_well_typed_edges(sim.graph),
                                        check_immutable_history(rule, order)>>)]

\* The revision written into the returned after snapshot.
next_revision(rev) == "rev-" \o ToString(unwrap_or(parse_u64(split_last(rev, "-")), 0) + 1)

DiffSummaryDefault == [nodes_added |-> 0, nodes_removed |-> 0, edges_added |-> 0, edges_removed |-> 0]

\* The ExecutionProof literal of apply.
ExecutionProof(rule, before, after) ==
  [rule_metadata |-> rule.metadata,
   rule_hash |-> "TODO-rule-hash",
   before_revision |-> before.metadata.revision,
   after_revision |-> after.metadata.revision,
   before_snapshot |-> Some(before),
   after_snapshot |-> Some(after),
   confluence_proof |-> None,
   diff_summary |-> DiffSummaryDefault,
   actor_id |-> "",
   timestamp |-> ""]

\* Variant in which snapshot() hands out the live snapshot instead of a clone:
\* before and after are the engine's own snapshot, rewritten and renumbered.
commit_aliased(c, rule) ==
  LET c2 == apply_rewrite(c, rule)
      live == [c2 EXCEPT !.snapshot.metadata.revision =
                            next_revision(c.snapshot.metadata.revision)]
  IN [core |-> live,
      result |-> [tag |-> "Ok",
                  proof |-> ExecutionProof(rule, live.snapshot, live.snapshot)]]

\* The part of apply after the validity test: [core, result].
commit(c, rule) ==
  LET before == snapshot(c)
      c2 == apply_rewrite(c, rule)
      after == [snapshot(c2) EXCEPT
                  !.metadata.revision = next_revision(before.metadata.revision)]
  IN [core |-> c2, result |-> [tag |-> "Ok", proof |-> ExecutionProof(rule, before, after)]]

\* Variant that rewrites the live graph before it looks at the report.
apply_rewrite_first(c, rule, order) ==
  LET v == validate(c, rule, order)
  IN IF v.tag = "Panic" THEN [core |-> c, result |-> [tag |-> "Panic"]]
     ELSE IF ~v.report.is_valid
     THEN [core |-> apply_rewrite(c, rule),
           result |-> [tag |-> "Err", errors |-> v.report.errors]]
     ELSE commit(c, rule)

\* Variant that commits whatever the report says.
apply_unchecked(c, rule, order) ==
  LET v == validate(c, rule, order)
  IN IF v.tag = "Panic" THEN [core |-> c, result |-> [tag |-> "Panic"]]
     ELSE commit(c, rule)

\* RmgCore::apply: the engine after the call and what the call returned
\* (a proof, the error of bail!, or the abort inside validate).
apply(c, rule, order) ==
  LET v == validate(c, rule, order)
  IN IF v.tag = "Panic" THEN [core |-> c, result |-> [tag |-> "Panic"]]
     ELSE IF ~v.report.is_valid
     THEN [core |-> c, result |-> [tag |-> "Err", errors |-> v.report.errors]]
     ELSE commit(c, rule)

(* ---------- Engines the tests construct ---------- *)

FixedTimestamp == "2025-11-15T12:00:00Z"

\* create_test_core_with_initial_state, with the attributes of msg-1 given.
SeedGraph(author, content) ==
  Graph(<<Node("thread-1", "Thread", EmptyAttrs),
          Node("turn-1", "Turn", EmptyAttrs),
          Node("msg-1", "Message", [author |-> Str(author), content |-> Str(content)]),
          Node("user-actor", "Actor", EmptyAttrs)>>,
        <<Edge("e1", "HAS_TURN", "thread-1", "turn-1"),
          Edge("e2", "HAS_MESSAGE", "turn-1", "msg-1"),
          Edge("e3", "AUTHORED_BY", "msg-1", "user-actor")>>)

SeedCore(author, content) ==
  [new(FixedTimestamp) EXCEPT !.snapshot.graph = SeedGraph(author, content)]

\* Scenario A
CoreA == SeedCore("user", "Please create a task to write the report.")

\* Scenario D
CoreD == SeedCore("assistant", "reach me at alice@example.com")

InitialCores == {new(FixedTimestamp), CoreA, CoreD}

(* ---------- Rules submitted by callers ---------- *)

MsgP == NodePattern("msg", Some("Message"))

TaskAttrs == [title |-> Str("Write the report"), status |-> Str("Pending")]

\* create_task_rule (tests) / MockOracle::propose_rule
rho_create_task ==
  DpoRule("rho_create_task_from_message", GraphPattern(<<MsgP>>), GraphPattern(<<MsgP>>),
          Graph(<<Node("var:msg", "Message", EmptyAttrs), Node("new:task", "Task", TaskAttrs)>>,
                <<Edge("new:edge", "CREATES_TASK", "var:msg", "new:task")>>))

\* Scenario E: a Message in L, K empty.
rho_delete_message ==
  DpoRule("rho_delete_message", GraphPattern(<<NodePattern("m", Some("Message"))>>),
          GraphPattern(<<>>), GraphDefault)

\* Scenario F: CREATES_TASK from a Thread.
rho_thread_task ==
  DpoRule("rho_thread_task", GraphPattern(<<NodePattern("t", Some("Thread"))>>),
          GraphPattern(<<NodePattern("t", Some("Thread"))>>),
          Graph(<<Node("var:t", "Thread", EmptyAttrs), Node("new:task", "Task", TaskAttrs)>>,
                <<Edge("new:edge", "CREATES_TASK", "var:t", "new:task")>>))

rho_noop == DpoRule("rho_noop", GraphPattern(<<>>), GraphPattern(<<>>), GraphDefault)

rho_add_concept ==
  DpoRule("rho_add_concept", GraphPattern(<<>>), GraphPattern(<<>>),
          Graph(<<Node("new:c", "Concept", EmptyAttrs)>>, <<>>))

rho_add_foo ==
  DpoRule("rho_add_foo", GraphPattern(<<>>), GraphPattern(<<>>),
          Graph(<<Node("new:x", "Foo", EmptyAttrs)>>, <<>>))

TurnActor == <<NodePattern("turn", Some("Turn")), NodePattern("actor", Some("Actor"))>>

\* A new Message under the bound Turn, authored by the bound Actor.
AddMessage(id, author, content) ==
  DpoRule(id, GraphPattern(TurnActor), GraphPattern(TurnActor),
          Graph(<<Node("var:turn", "Turn", EmptyAttrs), Node("var:actor", "Actor", EmptyAttrs),
                  Node("new:m", "Message", [author |-> Str(author), content |-> Str(content)])>>,
                <<Edge("new:hm", "HAS_MESSAGE", "var:turn", "new:m"),
                  Edge("new:ab", "AUTHORED_BY", "new:m", "var:actor")>>))

rho_add_message == AddMessage("rho_add_message", "user", "On it.")

rho_add_email == AddMessage("rho_add_email", "assistant", "write to bob.s+x@mail-1.example.org now")

rho_add_phone == AddMessage("rho_add_phone", "assistant", "call (555) 123-4567")

\* PII-like text from a user is not the assistant's leak.
rho_add_user_email == AddMessage("rho_add_user_email", "user", "reach me at alice@example.com")

rho_orphan ==
  DpoRule("rho_orphan", GraphPattern(<<>>), GraphPattern(<<>>),
          Graph(<<Node("new:m", "Message", EmptyAttrs)>>, <<>>))

\* An L pattern without node_type.
rho_untyped ==
  DpoRule("rho_untyped", GraphPattern(<<NodePattern("x", None)>>),
          GraphPattern(<<NodePattern("x", None)>>), GraphDefault)

rho_unknown_edge ==
  DpoRule("rho_unknown_edge", GraphPattern(<<MsgP>>), GraphPattern(<<MsgP>>),
          Graph(<<Node("var:msg", "Message", EmptyAttrs)>>,
                <<Edge("new:edge", "LIKES", "var:msg", "var:msg")>>))

\* Ids in R without a sentinel prefix.
rho_unprefixed ==
  DpoRule("rho_unprefixed", GraphPattern(<<>>), GraphPattern(<<>>),
          Graph(<<Node("task-9", "Task", EmptyAttrs)>>,
                <<Edge("e9", "BLOCKED_BY", "task-9", "task-9")>>))

\* The Message of L is in K but R has no var: node for it.
rho_msg_not_in_R ==
  DpoRule("rho_msg_not_in_R", GraphPattern(<<MsgP>>), GraphPattern(<<MsgP>>), GraphDefault)

\* The Message of L is in R but not in K.
rho_msg_not_in_K ==
  DpoRule("rho_msg_not_in_K", GraphPattern(<<MsgP>>), GraphPattern(<<>>),
          Graph(<<Node("var:msg", "Message", EmptyAttrs)>>, <<>>))

\* Two Messages of L, neither kept.
rho_two_deleted ==
  DpoRule("rho_two_deleted", GraphPattern(<<MsgP, NodePattern("m2", Some("Message"))>>),
          GraphPattern(<<>>), GraphDefault)

\* The Message of L kept by K and R, nothing added.
rho_keep_msg ==
  DpoRule("rho_keep_msg", GraphPattern(<<MsgP>>), GraphPattern(<<MsgP>>),
          Graph(<<Node("var:msg", "Message", EmptyAttrs)>>, <<>>))

\* A second HAS_MESSAGE edge into the bound Message.
rho_second_has_message ==
  DpoRule("rho_second_has_message",
          GraphPattern(<<MsgP, NodePattern("turn", Some("Turn"))>>),
          GraphPattern(<<MsgP, NodePattern("turn", Some("Turn"))>>),
          Graph(<<Node("var:msg", "Message", EmptyAttrs), Node("var:turn", "Turn", EmptyAttrs)>>,
                <<Edge("new:hm", "HAS_MESSAGE", "var:turn", "var:msg")>>))

\* An edge of R whose endpoint names a variable L does not have.
rho_unbound_var ==
  DpoRule("rho_unbound_var", GraphPattern(<<>>), GraphPattern(<<>>),
          Graph(<<Node("new:task", "Task", TaskAttrs)>>,
                <<Edge("new:edge", "CREATES_TASK", "var:msg", "new:task")>>))

\* Two new nodes and an edge between them.
rho_task_blocks ==
  DpoRule("rho_task_blocks", GraphPattern(<<>>), GraphPattern(<<>>),
          Graph(<<Node("new:a", "Task", EmptyAttrs), Node("new:b", "Task", EmptyAttrs)>>,
                <<Edge("new:edge", "BLOCKED_BY", "new:a", "new:b")>>))

\* A self-reply edge on the Message whose content is "On it.".
ReplyP == NodePatternWhere("msg", Some("Message"), [content |-> <<AttrEq(Str("On it."))>>])

rho_reply_loop ==
  DpoRule("rho_reply_loop", GraphPattern(<<ReplyP>>), GraphPattern(<<ReplyP>>),
          Graph(<<Node("var:msg", "Message", EmptyAttrs)>>,
                <<Edge("new:edge", "RESPONDS_TO", "var:msg", "var:msg")>>))

\* A Task variable in L that K does not keep.
rho_delete_task ==
  DpoRule("rho_delete_task", GraphPattern(<<NodePattern("t", Some("Task"))>>),
          GraphPattern(<<>>), GraphDefault)

\* The kept Message gets a status attribute.
rho_update_msg ==
  DpoRule("rho_update_msg", GraphPattern(<<MsgP>>), GraphPattern(<<MsgP>>),
          Graph(<<Node("var:msg", "Message", [status |-> Str("seen")])>>, <<>>))

\* A new node of an unrecognized type with an edge from it to the kept Thread.
ThreadP == NodePattern("th", Some("Thread"))

rho_foo_applies ==
  DpoRule("rho_foo_applies", GraphPattern(<<ThreadP>>), GraphPattern(<<ThreadP>>),
          Graph(<<Node("var:th", "Thread", EmptyAttrs), Node("new:f", "Foo", EmptyAttrs)>>,
                <<Edge("new:edge", "APPLIES_TO", "new:f", "var:th")>>))

\* Two Message variables in L, only the first kept by K and R.
rho_one_of_two ==
  DpoRule("rho_one_of_two", GraphPattern(<<MsgP, NodePattern("m2", Some("Message"))>>),
          GraphPattern(<<MsgP>>),
          Graph(<<Node("var:msg", "Message", EmptyAttrs)>>, <<>>))

\* Two Message variables in L, both kept by K and R.
rho_two_kept ==
  DpoRule("rho_two_kept", GraphPattern(<<MsgP, NodePattern("m2", Some("Message"))>>),
          GraphPattern(<<MsgP, NodePattern("m2", Some("Message"))>>),
          Graph(<<Node("var:msg", "Message", EmptyAttrs), Node("var:m2", "Message", EmptyAttrs)>>,
                <<>>))

\* K names a variable that L does not have; R names a variable that K does not have.
rho_malformed_refs ==
  DpoRule("rho_malformed_refs", GraphPattern(<<>>),
          GraphPattern(<<NodePattern("k", Some("Concept"))>>),
          Graph(<<Node("var:ghost", "Concept", EmptyAttrs)>>, <<>>))

Rules ==
  { rho_create_task, rho_delete_message, rho_thread_task, rho_noop, rho_add_concept,
    rho_add_foo, rho_add_message, rho_add_email, rho_add_phone, rho_add_user_email,
    rho_orphan, rho_untyped, rho_unknown_edge, rho_unprefixed, rho_msg_not_in_R,
    rho_msg_not_in_K, rho_two_deleted, rho_keep_msg, rho_second_has_message,
    rho_unbound_var, rho_task_blocks, rho_one_of_two, rho_two_kept, rho_malformed_refs,
    rho_reply_loop, rho_delete_task,
    rho_update_msg, rho_foo_applies }

(* ---------- State machine ---------- *)

\* validate takes &self: the engine after the call is the engine before it.
\* A variant that commits the graph it simulated.
validate_committing(c, rule) ==
  IF simulate_apply(c, rule).tag = "Ok" THEN apply_rewrite(c, rule) ELSE c

\* The engine after validate(rule) has returned or aborted (&self receiver).
after_validate(c, rule) == c

\* last: the most recent validate or apply on the engine: the operation, its
\* rule, the engine before the call, what the call returned, and for apply
\*   prior, prior_pre: what a validate of the same rule returned when it was the
\*     call just before, and the engine that validate was called on;
\*   twin: what the same apply does on a second engine in the same state
\*     ([core, result]), with its own HashSet iteration order.
\* history: before/after revisions of the proofs returned so far, in order.
\* held: a snapshot some caller obtained from snapshot() and still holds.
Init ==
  /\ core \in InitialCores
  /\ last = [op |-> "new", rule |-> None, pre |-> None, result |-> None,
             prior |-> None, prior_pre |-> None, twin |-> None]
  /\ history = <<>>
  /\ held = None

\* A caller runs validate(rule).
Validate(rule) ==
  \E order \in IterationOrders(message_vars_in_left(rule)) :
    /\ last' = [op |-> "validate", rule |-> rule, pre |-> core,
                result |-> validate(core, rule, order),
                prior |-> None, prior_pre |-> None, twin |-> None]
    /\ core' = after_validate(core, rule)
    /\ UNCHANGED <<history, held>>

\* A caller runs apply(rule); a second engine in the same state runs it too.
Apply(rule) ==
  /\ Len(history) < MaxApplies
  /\ \E order, order2 \in IterationOrders(message_vars_in_left(rule)) :
     \E r \in {apply(core, rule, order)} :
       LET validated == last.op = "validate" /\ last.rule = rule
       IN /\ core' = r.core
          /\ last' = [op |-> "apply", rule |-> rule, pre |-> core, result |-> r.result,
                      prior |-> IF validated /\ last.pre = core THEN last.result ELSE None,
                      prior_pre |-> IF validated THEN Some(last.pre) ELSE None,
                      twin |-> apply(core, rule, order2)]
          /\ history' = IF r.result.tag = "Ok"
                        THEN Append(history, [before_revision |-> r.result.proof.before_revision,
                                              after_revision |-> r.result.proof.after_revision])
                        ELSE history
          /\ UNCHANGED held

\* A caller runs snapshot() and keeps the value.
TakeSnapshot ==
  /\ held = None
  /\ held' = Some(snapshot(core))
  /\ UNCHANGED <<core, last, history>>

Next == \E rule \in Rules : Validate(rule) \/ Apply(rule)

Spec == Init /\ [][Next]_vars

\* The same engine with a caller that holds on to a snapshot, under a few rules:
\* two that grow the graph, one that changes nothing, one that is rejected and
\* one that aborts.
HoldingRules == {rho_create_task, rho_add_concept, rho_noop, rho_delete_message, rho_untyped}

NextHolding == TakeSnapshot \/ \E rule \in HoldingRules : Validate(rule) \/ Apply(rule)

SpecHolding == Init /\ [][NextHolding]_vars

(* ---------- Properties ---------- *)

AppliedOk == last.op = "apply" /\ last.result.tag = "Ok"

AppliedErr == last.op = "apply" /\ last.result.tag = "Err"

LiveGraph == core.snapshot.graph

\* C1 (atomicity): whenever apply has returned an error, the engine (live graph,
\* snapshot metadata with its revision, both id counters) is what it was before
\* the call, and so snapshot() returns what it returned before.
C1_Atomicity ==
  AppliedErr => /\ core = last.pre
                /\ snapshot(core) = snapshot(last.pre)

\* An apply of a rule whose R adds elements has returned an error on a non-empty graph.
C1_Witness ==
  /\ AppliedErr
  /\ Len(last.pre.snapshot.graph.nodes) > 0
  /\ Len(last.rule.right.nodes) > 0
  /\ Len(last.result.errors) > 0

\* C2 (validation-simulation agreement): when validate(rule) returned a report
\* and apply(rule) was then called in the same state, a valid report is followed
\* by a successful apply returning a proof, and an invalid report by a failed
\* apply that leaves the engine unchanged.
C2_ValidateApplyAgree ==
  (last.op = "apply" /\ last.prior.tag = "Ok") =>
     /\ last.prior.report.is_valid =>
          /\ last.result.tag = "Ok"
          /\ last.result.proof.after_snapshot.tag = "Some"
     /\ ~last.prior.report.is_valid =>
          /\ last.result.tag = "Err"
          /\ core = last.pre

\* validate reported valid and the apply that followed changed the graph.
C2_Witness ==
  /\ AppliedOk
  /\ last.prior.tag = "Ok"
  /\ last.prior.report.is_valid
  /\ LiveGraph # last.pre.snapshot.graph

\* C3 (revision monotonicity): the k-th successful apply on an engine that
\* started at rev-0 returns a proof with before_revision rev-(k-1) and
\* after_revision rev-k.
C3_RevisionChain ==
  \A k \in 1..Len(history) :
    /\ history[k].before_revision = "rev-" \o ToString(k - 1)
    /\ history[k].after_revision = "rev-" \o ToString(k)

\* C4 (commit of the revision): after a successful apply, snapshot() equals the
\* proof's after_snapshot: the promoted graph with the revision advanced by one.
C4_CommitRevision ==
  AppliedOk =>
     /\ snapshot(core) = last.result.proof.after_snapshot.v
     /\ core.snapshot.metadata.revision = next_revision(last.pre.snapshot.metadata.revision)

NoDuplicateIds(xs) == \A i, j \in 1..Len(xs) : i # j => xs[i].id # xs[j].id

\* C5 (id uniqueness): the live graph never holds two nodes with the same id
\* nor two edges with the same id.
C5_UniqueIds == NoDuplicateIds(LiveGraph.nodes) /\ NoDuplicateIds(LiveGraph.edges)

ValidatedWithReport == last.op = "validate" /\ last.result.tag = "Ok"

\* The graph the simulator produces for the last call's rule on the engine the
\* call started from (when it produces one).
Simulated == simulate_apply(last.pre, last.rule)

\* The typed-edge table of the specification, on the type names themselves.
SpecEdgeRows ==
  { <<"HAS_TURN", "Thread", "Turn">>, <<"HAS_MESSAGE", "Turn", "Message">>,
    <<"AUTHORED_BY", "Message", "Actor">>, <<"RESPONDS_TO", "Message", "Message">>,
    <<"MENTIONS", "Message", "Concept">>, <<"RELATES_TO", "Concept", "Concept">>,
    <<"DECIDES", "Decision", "Concept">>, <<"DECIDES", "Decision", "Task">>,
    <<"BLOCKED_BY", "Task", "Task">>, <<"BLOCKED_BY", "Task", "Concept">>,
    <<"APPLIES_TO", "Decision", "Thread">>, <<"CREATES_TASK", "Message", "Task">> }

\* Edge e of graph g is a row of the table: its src and dst are ids of nodes of g
\* whose types make (edge_type, src type, dst type) a row (every type in a row
\* is a recognized one).
EdgeInTable(g, e) ==
  \E i, j \in 1..Len(g.nodes) :
    /\ g.nodes[i].id = e.src
    /\ g.nodes[j].id = e.dst
    /\ <<e.edge_type, g.nodes[i].node_type, g.nodes[j].node_type>> \in SpecEdgeRows

AllEdgesInTable(g) == \A k \in 1..Len(g.edges) : EdgeInTable(g, g.edges[k])

\* C6 (typed-edge closure): after a successful apply every edge of the live graph
\* has a recognized type and endpoints that are ids of existing nodes of
\* recognized types forming a row of the typed-edge table; and when the simulated
\* result of a rule holds an edge that is not such a row, validate reports
\* well_typed_edges failed (is_valid false) and apply fails without mutation.
C6_TypedEdgeClosure ==
  /\ AppliedOk => AllEdgesInTable(LiveGraph)
  /\ (ValidatedWithReport /\ ~AllEdgesInTable(Simulated.graph)) =>
        /\ last.result.report.invariants[3].name = "well_typed_edges"
        /\ ~last.result.report.invariants[3].passed
        /\ ~last.result.report.is_valid
  /\ (last.op = "apply" /\ last.result.tag # "Panic" /\ ~AllEdgesInTable(Simulated.graph)) =>
        /\ last.result.tag = "Err"
        /\ core = last.pre

\* A successful apply has added a CREATES_TASK edge to a graph that had edges.
C6_Witness ==
  /\ AppliedOk
  /\ Len(last.pre.snapshot.graph.edges) > 0
  /\ Len(LiveGraph.edges) > Len(last.pre.snapshot.graph.edges)
  /\ LiveGraph.edges[Len(LiveGraph.edges)].edge_type = "CREATES_TASK"

EdgeCount(g, ty, end, id) ==
  Cardinality({k \in 1..Len(g.edges) : g.edges[k].edge_type = ty /\ g.edges[k][end] = id})

MessageNodes(g) == {i \in 1..Len(g.nodes) : g.nodes[i].node_type = "Message"}

NoOrphanMessages(g) ==
  \A i \in MessageNodes(g) :
    /\ EdgeCount(g, "HAS_MESSAGE", "dst", g.nodes[i].id) = 1
    /\ EdgeCount(g, "AUTHORED_BY", "src", g.nodes[i].id) = 1

\* C7 (no orphan messages): after a successful apply every Message node of the
\* live graph has exactly one HAS_MESSAGE edge into its id and exactly one
\* AUTHORED_BY edge out of its id; and a rule whose simulated result gives some
\* Message another count is reported invalid (no_orphan_messages failed) by
\* validate and refused by apply without mutation.
C7_NoOrphanMessages ==
  /\ AppliedOk => NoOrphanMessages(LiveGraph)
  /\ (ValidatedWithReport /\ ~NoOrphanMessages(Simulated.graph)) =>
        /\ last.result.report.invariants[1].name = "no_orphan_messages"
        /\ ~last.result.report.invariants[1].passed
        /\ ~last.result.report.is_valid
  /\ (last.op = "apply" /\ last.result.tag # "Panic" /\ ~NoOrphanMessages(Simulated.graph)) =>
        /\ last.result.tag = "Err"
        /\ core = last.pre

\* A successful apply has added a Message node.
C7_Witness ==
  /\ AppliedOk
  /\ Cardinality(MessageNodes(LiveGraph)) > Cardinality(MessageNodes(last.pre.snapshot.graph))

\* Node n is an assistant-authored Message whose content is a string matching
\* the email or the phone pattern.
LeaksPII(n) ==
  /\ n.node_type = "Message"
  /\ "author" \in DOMAIN n.attrs
  /\ n.attrs["author"] = Str("assistant")
  /\ "content" \in DOMAIN n.attrs
  /\ n.attrs["content"].kind = "Str"
  /\ (email_re_is_match(n.attrs["content"].value) \/ phone_re_is_match(n.attrs["content"].value))

HasLeak(g) == \E i \in 1..Len(g.nodes) : LeaksPII(g.nodes[i])

\* The rule of the last call leaves a leaking message of the starting graph in
\* place: the simulator returns a graph that still holds it.
LeavesLeakInPlace ==
  /\ Simulated.tag = "Ok"
  /\ \E i \in 1..Len(last.pre.snapshot.graph.nodes) :
       /\ LeaksPII(last.pre.snapshot.graph.nodes[i])
       /\ \E j \in 1..Len(Simulated.graph.nodes) :
            Simulated.graph.nodes[j] = last.pre.snapshot.graph.nodes[i]

\* C8 (PII guard): after a successful apply the live graph holds no
\* assistant-authored Message whose content matches the email or phone pattern;
\* a rule whose simulated result holds one (in particular a rule that leaves in
\* place such a message already in the graph) is reported invalid by validate
\* with no_assistant_pii_leak failed, and apply of it does not succeed and leaves
\* snapshot() unchanged.
C8_PiiGuard ==
  /\ AppliedOk => ~HasLeak(LiveGraph)
  /\ (ValidatedWithReport /\ (LeavesLeakInPlace \/ HasLeak(Simulated.graph))) =>
        /\ last.result.report.invariants[2].name = "no_assistant_pii_leak"
        /\ ~last.result.report.invariants[2].passed
        /\ ~last.result.report.is_valid
  /\ (last.op = "apply" /\ last.result.tag # "Panic"
        /\ (LeavesLeakInPlace \/ HasLeak(Simulated.graph))) =>
        /\ last.result.tag = "Err"
        /\ snapshot(core) = snapshot(last.pre)
  /\ (last.op = "apply" /\ HasLeak(last.pre.snapshot.graph)) =>
        /\ last.result.tag # "Ok"
        /\ snapshot(core) = snapshot(last.pre)

\* apply has refused a rule on a graph that already holds a leaking message.
C8_Witness ==
  /\ AppliedErr
  /\ HasLeak(last.pre.snapshot.graph)
  /\ LeavesLeakInPlace

\* C9 (history preservation): after a successful apply every Message node of the
\* before graph is in the after graph with the same id and type Message.
C9_HistoryPreserved ==
  AppliedOk =>
    \A i \in MessageNodes(last.pre.snapshot.graph) :
      \E j \in MessageNodes(LiveGraph) :
        LiveGraph.nodes[j].id = last.pre.snapshot.graph.nodes[i].id

\* A rule with a Message in L has been applied to a graph holding a Message and
\* has changed the graph.
C9_Witness ==
  /\ AppliedOk
  /\ MessageNodes(last.pre.snapshot.graph) # {}
  /\ message_vars_in_left(last.rule) # {}
  /\ LiveGraph # last.pre.snapshot.graph

\* What the specification asks of a rule: every node variable of L whose
\* node_type is Message is a node variable of K and has a node var:<variable> in R.
KeepsMessages(rule) ==
  \A i \in 1..Len(rule.left.nodes) :
    rule.left.nodes[i].node_type = Some("Message") =>
      /\ \E k \in 1..Len(rule.interface.nodes) :
           rule.interface.nodes[k].var = rule.left.nodes[i].var
      /\ \E j \in 1..Len(rule.right.nodes) :
           rule.right.nodes[j].id = "var:" \o rule.left.nodes[i].var

\* C10 (immutable_history): for the rule of every call, whatever the iteration
\* order, the immutable_history check passes exactly when every Message variable
\* of L is in K and has its var: node in R; validate reports that result, and
\* when it is a failure reports is_valid false, and apply returns an error
\* without mutating the engine.
C10_ImmutableHistory ==
  /\ last.op \in {"validate", "apply"} =>
        \A o \in IterationOrders(message_vars_in_left(last.rule)) :
          check_immutable_history(last.rule, o).passed <=> KeepsMessages(last.rule)
  /\ ValidatedWithReport =>
        /\ last.result.report.invariants[4].name = "immutable_history"
        /\ last.result.report.invariants[4].passed <=> KeepsMessages(last.rule)
        /\ ~last.result.report.invariants[4].passed => ~last.result.report.is_valid
  /\ (last.op = "apply" /\ last.result.tag # "Panic" /\ ~KeepsMessages(last.rule)) =>
        /\ last.result.tag = "Err"
        /\ core = last.pre

\* apply has refused a rule with a Message in L and an empty K on a graph that
\* holds a Message.
C10_Witness ==
  /\ AppliedErr
  /\ ~KeepsMessages(last.rule)
  /\ Len(last.rule.interface.nodes) = 0
  /\ MessageNodes(last.pre.snapshot.graph) # {}


(* ---------- Determinism, purity of validate, snapshots ---------- *)

\* What the claim compares in the outcomes of one apply on two engines: whether
\* the call returned a proof, an error or aborted and, for a proof, its after
\* snapshot, diff summary and before/after revisions.
Compared(result) ==
  IF result.tag = "Ok"
  THEN [tag |-> "Ok",
        after_snapshot |-> result.proof.after_snapshot,
        diff_summary |-> result.proof.diff_summary,
        before_revision |-> result.proof.before_revision,
        after_revision |-> result.proof.after_revision]
  ELSE [tag |-> result.tag]

\* C11 (determinism): when two engines in equal states run apply with the same
\* rule, either both fail or both return proofs with equal after snapshots, diff
\* summaries and before/after revisions, and the two engines are again in equal
\* states, whatever order each one's HashSet is iterated in.
C11_Determinism ==
  last.op = "apply" =>
    /\ Compared(last.result) = Compared(last.twin.result)
    /\ core = last.twin.core

\* Both engines committed a rule whose L has two Message variables, so that
\* each had two iteration orders to choose from.
C11_Witness ==
  /\ AppliedOk
  /\ last.twin.result.tag = "Ok"
  /\ Cardinality(message_vars_in_left(last.rule)) = 2

\* Both engines rejected a rule and reported the problems in different orders.
C11_WitnessErr ==
  /\ AppliedErr
  /\ last.twin.result.tag = "Err"
  /\ last.twin.result.errors # last.result.errors


\* C12 (validate is pure): after validate the engine (graph, metadata, both id
\* counters) is what it was before the call, and an apply that follows a
\* validate of the same rule ends in the engine state and returns the result
\* that apply gives on the engine as it was before that validate.
C12_ValidatePure ==
  /\ last.op = "validate" => core = last.pre
  /\ (last.op = "apply" /\ last.prior_pre.tag = "Some") =>
       \E order \in IterationOrders(message_vars_in_left(last.rule)) :
         apply(last.prior_pre.v, last.rule, order) = [core |-> core, result |-> last.result]

\* A validate reported a rule valid and the apply that followed grew the graph.
C12_Witness ==
  /\ AppliedOk
  /\ last.prior_pre.tag = "Some"
  /\ last.prior.tag = "Ok"
  /\ LiveGraph # last.prior_pre.v.snapshot.graph


\* C13 (snapshot isolation): a snapshot a caller holds is never changed by a
\* later validate or apply, and the before snapshot in a returned proof is the
\* engine's snapshot at the time apply was called, although the engine has been
\* rewritten since it was taken.
C13_SnapshotIsolation ==
  /\ [](AppliedOk => last.result.proof.before_snapshot = Some(snapshot(last.pre)))
  /\ [][held.tag = "Some" => held' = held]_vars

\* A caller holds a snapshot taken before an apply that grew the graph.
C13_Witness ==
  /\ held.tag = "Some"
  /\ AppliedOk
  /\ held.v.graph # LiveGraph
  /\ last.result.proof.before_snapshot.v.graph # LiveGraph


(* ---------- The add step ---------- *)

IsNew(x) == starts_with(x.id, "new:")

\* The new: nodes and new: edges of R, in R's order.
NewNodesOf(rule) == SelectSeq(rule.right.nodes, IsNew)

NewEdgesOf(rule) == SelectSeq(rule.right.edges, IsNew)

IsConcrete(id) == ~starts_with(id, "new:") /\ ~starts_with(id, "var:")

\* Every variable of L is kept by K: the rule deletes nothing.
NothingDeleted(rule) ==
  \A i \in 1..Len(rule.left.nodes) : rule.left.nodes[i].var \in interface_vars(rule)

\* got is what the endpoint ref of an R edge must resolve to: for new:NAME the id
\* of the node appended for that R node, for var:NAME the id of a node of the
\* before graph that the L variable NAME can stand for.
Resolves(ref, got, rule, before, after) ==
  LET n == Len(before.nodes)
      news == NewNodesOf(rule)
  IN /\ IsConcrete(got)
     /\ starts_with(ref, "new:") =>
          \E i \in 1..Len(news) : news[i].id = ref /\ after.nodes[n + i].id = got
     /\ starts_with(ref, "var:") =>
          \E k \in 1..Len(rule.left.nodes), j \in 1..n :
            /\ "var:" \o rule.left.nodes[k].var = ref
            /\ rule.left.nodes[k].node_type = Some(before.nodes[j].node_type)
            /\ before.nodes[j].id = got

\* after is before followed by one node per new: node and one edge per new:
\* edge of R, in R's order, with the edges' endpoints resolved.
AddStepResult(rule, before, after) ==
  LET n == Len(before.nodes)
      m == Len(before.edges)
      news == NewNodesOf(rule)
      newe == NewEdgesOf(rule)
  IN /\ Len(after.nodes) = n + Len(news)
     /\ Len(after.edges) = m + Len(newe)
     /\ SubSeq(after.nodes, 1, n) = before.nodes
     /\ SubSeq(after.edges, 1, m) = before.edges
     /\ \A i \in 1..Len(news) :
          /\ IsConcrete(after.nodes[n + i].id)
          /\ after.nodes[n + i].node_type = news[i].node_type
          /\ after.nodes[n + i].attrs = news[i].attrs
     /\ \A i \in 1..Len(newe) :
          /\ IsConcrete(after.edges[m + i].id)
          /\ after.edges[m + i].edge_type = newe[i].edge_type
          /\ after.edges[m + i].attrs = newe[i].attrs
          /\ Resolves(newe[i].src, after.edges[m + i].src, rule, before, after)
          /\ Resolves(newe[i].dst, after.edges[m + i].dst, rule, before, after)

\* C14 (add step result): after a successful apply of a rule that keeps all of
\* its L variables in K, the after graph (in the proof and in the engine) is the
\* before graph, in order, followed by one added node per new: node of R and one
\* added edge per new: edge of R, in R's order, each added edge's src and dst
\* being concrete ids resolved through the var: binding and the new: allocation.
C14_AddStepResult ==
  (AppliedOk /\ NothingDeleted(last.rule)) =>
    /\ AddStepResult(last.rule, last.pre.snapshot.graph, LiveGraph)
    /\ last.result.proof.after_snapshot.v.graph = LiveGraph

\* Scenario B: the seed graph of 4 nodes and 3 edges becomes 5 nodes and 4
\* edges, the new CREATES_TASK edge leaving msg-1.
C14_Witness ==
  /\ AppliedOk
  /\ last.rule = rho_create_task
  /\ Len(last.pre.snapshot.graph.nodes) = 4
  /\ Len(LiveGraph.nodes) = 5
  /\ Len(LiveGraph.edges) = 4
  /\ LiveGraph.edges[4].edge_type = "CREATES_TASK"
  /\ LiveGraph.edges[4].src = "msg-1"


(* ---------- Rules the matcher or the rule check must refuse ---------- *)

Called == last.op \in {"validate", "apply"}

\* The last call refused the rule: validate did not report it valid; apply
\* returned an error and left the engine as it was.
Refused ==
  /\ last.op = "validate" => ~(last.result.tag = "Ok" /\ last.result.report.is_valid)
  /\ last.op = "apply" => (last.result.tag = "Err" /\ core = last.pre)

NodesOfType(g, ty) == {i \in 1..Len(g.nodes) : g.nodes[i].node_type = ty}

\* Some variable of L has no node it could be bound to.
Unbindable(rule, g) ==
  \E i \in 1..Len(rule.left.nodes) :
    LET np == rule.left.nodes[i]
    IN IF np.node_type.tag = "Some" THEN NodesOfType(g, np.node_type.v) = {}
       ELSE Len(g.nodes) = 0

\* C15 (match failure): when L has a variable that no node of the live graph can
\* be bound to, validate does not report the rule valid and apply returns an
\* error and changes nothing, whether or not R mentions the variable.
C15_MatchFailure ==
  (Called /\ Unbindable(last.rule, last.pre.snapshot.graph)) => Refused

\* C16 (no abort paths): validate and apply always return, a report, a proof or
\* an error, even for a rule whose L has a pattern without node_type.
C16_NoAbort == Called => last.result.tag # "Panic"

\* R has a node whose id starts with neither var: nor new:, or an edge whose id
\* does not start with new:.
HasUnprefixedId(rule) ==
  \/ \E i \in 1..Len(rule.right.nodes) :
       ~starts_with(rule.right.nodes[i].id, "var:") /\ ~starts_with(rule.right.nodes[i].id, "new:")
  \/ \E i \in 1..Len(rule.right.edges) : ~starts_with(rule.right.edges[i].id, "new:")

\* C17 (unprefixed ids): a rule whose R has an unprefixed node id or edge id is
\* refused, not silently accepted with those elements skipped.
C17_UnprefixedRejected == (Called /\ HasUnprefixedId(last.rule)) => Refused

left_vars(rule) == {rule.left.nodes[i].var : i \in 1..Len(rule.left.nodes)}

\* The var: references of R: node ids and edge endpoints.
VarRefsInRight(rule) ==
  {x \in {rule.right.nodes[i].id : i \in 1..Len(rule.right.nodes)}
         \cup {rule.right.edges[i].src : i \in 1..Len(rule.right.edges)}
         \cup {rule.right.edges[i].dst : i \in 1..Len(rule.right.edges)} :
     starts_with(x, "var:")}

\* R refers to a variable that K does not have, or K has one that L does not.
MalformedRefs(rule) ==
  \/ \E x \in VarRefsInRight(rule) : strip_prefix(x, "var:").v \notin interface_vars(rule)
  \/ \E v \in interface_vars(rule) : v \notin left_vars(rule)

\* C18 (malformed variable references): a rule whose R refers to var:NAME with
\* NAME not in K, or whose K has a variable that is not in L, is refused.
C18_MalformedRejected == (Called /\ MalformedRefs(last.rule)) => Refused


(* ---------- Id counters and the binding of L ---------- *)

\* The ids n<c> .. n<c+k-1> (or e<d> ..), in order.
IdRange(prefix, c, k) == [i \in 1..k |-> prefix \o ToString(c + i - 1)]

IdsOf(elems) == [i \in 1..Len(elems) |-> elems[i].id]

\* C19 (id allocation from monotonic counters): a successful apply that adds k
\* nodes and m edges from counters c and d gives them the ids n<c> .. n<c+k-1>
\* and e<d> .. e<d+m-1> and leaves the counters at c + k and d + m; a failed
\* apply leaves the counters as they were.
C19_MonotonicCounters ==
  LET c == last.pre.next_node_id
      d == last.pre.next_edge_id
      k == Len(NewNodesOf(last.rule))
      m == Len(NewEdgesOf(last.rule))
      n == Len(last.pre.snapshot.graph.nodes)
      e == Len(last.pre.snapshot.graph.edges)
  IN /\ AppliedOk =>
          /\ IdsOf(SubSeq(LiveGraph.nodes, n + 1, n + k)) = IdRange("n", c, k)
          /\ IdsOf(SubSeq(LiveGraph.edges, e + 1, e + m)) = IdRange("e", d, m)
          /\ core.next_node_id = c + k
          /\ core.next_edge_id = d + m
     /\ (last.op = "apply" /\ ~AppliedOk) =>
          /\ core.next_node_id = c
          /\ core.next_edge_id = d

\* The id map after the loop over L: what each var:<name> is bound to.
Binding(c, rule) == bind_left(c.snapshot.graph.nodes, rule.left.nodes, 1, EmptyMap)

\* C20 (injective binding): after a successful apply of a rule whose L has two
\* or more distinct variables, every variable is bound and no two of them are
\* bound to the same node; with too few nodes the rule is refused.
C20_InjectiveBinding ==
  AppliedOk =>
    LET b == Binding(last.pre, last.rule)
    IN \A v, w \in left_vars(last.rule) :
         v # w => /\ "var:" \o v \in DOMAIN b
                  /\ "var:" \o w \in DOMAIN b
                  /\ b["var:" \o v] # b["var:" \o w]


(* ---------- Binding selection ---------- *)

\* One attribute constraint against the value a node has under the key.
Holds(c, v) == v.tag = "Some" /\ c.op = "eq" /\ v.v = c.value

\* The node satisfies every constraint the pattern lists, on every key.
Satisfies(node, np) ==
  \A k \in DOMAIN np.attr_constraints :
    \A i \in 1..Len(np.attr_constraints[k]) :
      Holds(np.attr_constraints[k][i], attrs_get(node.attrs, k))

\* Positions of the nodes the pattern may be bound to.
Candidates(g, np) ==
  {i \in 1..Len(g.nodes) :
     /\ np.node_type.tag = "Some" => g.nodes[i].node_type = np.node_type.v
     /\ Satisfies(g.nodes[i], np)}

\* C21 (binding selection): after a successful apply of a rule whose L has a
\* single variable, the node var:<variable> was resolved to is the first node,
\* in insertion order, that has the variable's node_type and satisfies all of
\* its attribute constraints; a node that violates a constraint is never bound.
C21_BindingSelection ==
  (AppliedOk /\ Len(last.rule.left.nodes) = 1) =>
    LET np == last.rule.left.nodes[1]
        g == last.pre.snapshot.graph
        b == Binding(last.pre, last.rule)
        cand == Candidates(g, np)
    IN ("var:" \o np.var) \in DOMAIN b =>
         /\ cand # {}
         /\ b["var:" \o np.var] = g.nodes[CHOOSE i \in cand : \A j \in cand : i <= j].id


(* ---------- Delete step and attribute updates ---------- *)

\* The ids that the variables of L missing from K were bound to.
DeletedIds(c, rule) ==
  LET b == Binding(c, rule)
  IN {b["var:" \o v] : v \in {w \in left_vars(rule) \ interface_vars(rule) :
                                 ("var:" \o w) \in DOMAIN b}}

\* C22 (delete step): after a successful apply, a node bound to a variable of L
\* that is not in K is gone from the graph, and so is every edge whose src or
\* dst is that node.
C22_DeleteStep ==
  AppliedOk =>
    \A id \in DeletedIds(last.pre, last.rule) :
      /\ \A i \in 1..Len(LiveGraph.nodes) : LiveGraph.nodes[i].id # id
      /\ \A i \in 1..Len(LiveGraph.edges) :
           LiveGraph.edges[i].src # id /\ LiveGraph.edges[i].dst # id


\* The attributes of a preserved node after R's update: listed keys take R's
\* value, the others stay.
UpdatedAttrs(old, upd) ==
  [k \in (DOMAIN old) \cup (DOMAIN upd) |-> IF k \in DOMAIN upd THEN upd[k] ELSE old[k]]

NodesWithId(g, id) == {j \in 1..Len(g.nodes) : g.nodes[j].id = id}

\* C23 (attribute update on preserved nodes): after a successful apply, the live
\* node bound to NAME, for a node var:NAME of R, has R's value under every key R
\* lists and its old value under every other key, and is not added again.
C23_AttributeUpdate ==
  AppliedOk =>
    LET b == Binding(last.pre, last.rule)
        g == last.pre.snapshot.graph
        R == last.rule.right.nodes
    IN \A i \in 1..Len(R) :
         (starts_with(R[i].id, "var:") /\ R[i].id \in DOMAIN b) =>
           /\ \A j \in NodesWithId(g, b[R[i].id]) :
                LiveGraph.nodes[j].attrs = UpdatedAttrs(g.nodes[j].attrs, R[i].attrs)
           /\ Cardinality(NodesWithId(LiveGraph, b[R[i].id]))
                = Cardinality(NodesWithId(g, b[R[i].id]))


(* ---------- Diff summary ---------- *)

IdSet(elems) == {elems[i].id : i \in 1..Len(elems)}

\* C24 (diff summary): in the proof of a successful apply, nodes_added and
\* edges_added count the node and edge ids that are in the after snapshot and
\* not in the before snapshot, nodes_removed and edges_removed those that are
\* in the before snapshot and not in the after snapshot.
C24_DiffSummary ==
  AppliedOk =>
    LET before == last.result.proof.before_snapshot.v.graph
        after == last.result.proof.after_snapshot.v.graph
        d == last.result.proof.diff_summary
    IN /\ d.nodes_added = Cardinality(IdSet(after.nodes) \ IdSet(before.nodes))
       /\ d.edges_added = Cardinality(IdSet(after.edges) \ IdSet(before.edges))
       /\ d.nodes_removed = Cardinality(IdSet(before.nodes) \ IdSet(after.nodes))
       /\ d.edges_removed = Cardinality(IdSet(before.edges) \ IdSet(after.edges))


(* ---------- Unrecognized node types ---------- *)

SpecNodeTypes == {"Thread", "Turn", "Message", "Actor", "Concept", "Decision", "Task"}

IsUnrecognizedNew(n) == IsNew(n) /\ n.node_type \notin SpecNodeTypes

IsNotUnrecognizedNew(n) == ~IsUnrecognizedNew(n)

\* R adds a node of an unrecognized type and no edge of R has such a node as
\* src or dst.
AddsLoneUnrecognized(rule) ==
  LET ids == {rule.right.nodes[i].id :
                i \in {j \in 1..Len(rule.right.nodes) : IsUnrecognizedNew(rule.right.nodes[j])}}
  IN /\ ids # {}
     /\ \A k \in 1..Len(rule.right.edges) :
          rule.right.edges[k].src \notin ids /\ rule.right.edges[k].dst \notin ids

\* The rule without the unrecognized nodes it adds: the rest.
WithoutUnrecognized(rule) ==
  [rule EXCEPT !.right.nodes = SelectSeq(@, IsNotUnrecognizedNew)]

\* The id is borne by a node of an unrecognized type and by no node of a
\* recognized one.
UnrecognizedId(g, id) ==
  /\ \E i \in 1..Len(g.nodes) : g.nodes[i].id = id /\ g.nodes[i].node_type \notin SpecNodeTypes
  /\ \A i \in 1..Len(g.nodes) : g.nodes[i].id = id => g.nodes[i].node_type \notin SpecNodeTypes

TouchesUnrecognized(g) ==
  \E k \in 1..Len(g.edges) : UnrecognizedId(g, g.edges[k].src) \/ UnrecognizedId(g, g.edges[k].dst)

\* The last call accepted the rule: validate reported it valid, apply returned a proof.
Accepted ==
  /\ last.op = "validate" => (last.result.tag = "Ok" /\ last.result.report.is_valid)
  /\ last.op = "apply" => last.result.tag = "Ok"

\* C25 (unrecognized node types): a rule that adds a node of a type outside the
\* seven recognized ones, with no edge touching it, is accepted whenever the rule
\* without that node is valid; and a rule whose simulated result has an edge
\* whose src or dst is a node of an unrecognized type is refused, with
\* well_typed_edges failed, and leaves the engine unchanged.
C25_UnrecognizedTypes ==
  /\ (Called /\ AddsLoneUnrecognized(last.rule) /\ last.result.tag # "Panic"
        /\ \A order \in IterationOrders(message_vars_in_left(last.rule)) :
             validate(last.pre, WithoutUnrecognized(last.rule), order).report.is_valid)
       => Accepted
  /\ (Called /\ Simulated.tag = "Ok" /\ TouchesUnrecognized(Simulated.graph)) =>
       /\ Refused
       /\ ValidatedWithReport => ~last.result.report.invariants[3].passed

\* A Foo node was added by an earlier apply and is in the live graph; the rule
\* that would add an edge from a Foo node to the Thread has just been refused.
C25_Witness ==
  /\ AppliedErr
  /\ last.rule = rho_foo_applies
  /\ TouchesUnrecognized(Simulated.graph)
  /\ \E i \in 1..Len(LiveGraph.nodes) : LiveGraph.nodes[i].node_type = "Foo"


(* ---------- Sentinels ---------- *)

IsSentinel(id) == starts_with(id, "var:") \/ starts_with(id, "new:")

\* No node id, edge id, edge src or edge dst of g begins with var: or new:.
NoSentinels(g) ==
  /\ \A i \in 1..Len(g.nodes) : ~IsSentinel(g.nodes[i].id)
  /\ \A k \in 1..Len(g.edges) :
       ~IsSentinel(g.edges[k].id) /\ ~IsSentinel(g.edges[k].src) /\ ~IsSentinel(g.edges[k].dst)

\* C26 (no sentinel leaks): the live graph never holds a node id, edge id, edge
\* src or edge dst that begins with var: or new:; a rule whose simulated result
\* holds one (an endpoint that could not be resolved) is refused.
C26_NoSentinelLeaks ==
  /\ NoSentinels(LiveGraph)
  /\ (Called /\ Simulated.tag = "Ok" /\ ~NoSentinels(Simulated.graph)) => Refused

\* apply has refused a rule whose new edge leaves var:msg, a variable L does
\* not bind, on an engine that an earlier apply had already rewritten.
C26_Witness ==
  /\ AppliedErr
  /\ last.rule = rho_unbound_var
  /\ ~NoSentinels(Simulated.graph)
  /\ Len(history) > 0


(* ---------- Validation report ---------- *)

InvariantNames == <<"no_orphan_messages", "no_assistant_pii_leak", "well_typed_edges",
                    "immutable_history">>

HasFailed(inv) == ~inv.passed

\* C27 (report aggregation): in every report validate returns, the invariants
\* are the four results in order, is_valid is true exactly when all four have
\* passed, errors has one entry per failed invariant, in order, naming it,
\* schema_valid equals is_valid and is_confluent is true.
C27_ReportAggregation ==
  ValidatedWithReport =>
    LET r == last.result.report
        failed == SelectSeq(r.invariants, HasFailed)
    IN /\ Len(r.invariants) = 4
       /\ \A i \in 1..4 : r.invariants[i].name = InvariantNames[i]
       /\ r.is_valid = (\A i \in 1..4 : r.invariants[i].passed)
       /\ Len(r.errors) = Len(failed)
       /\ \A i \in 1..Len(failed) :
            starts_with(r.errors[i], "Invariant '" \o failed[i].name \o "' failed")
       /\ r.schema_valid = r.is_valid
       /\ r.is_confluent = TRUE

\* validate has returned a report in which two invariants failed.
C27_Witness ==
  /\ ValidatedWithReport
  /\ Len(last.result.report.errors) = 2
  /\ ~last.result.report.is_valid

====
